---- MODULE Spec2Model ----
(***************************************************************************)
(* A model of pavia.py: the Chord computation over one <Chord> node, the   *)
(* Measure/voice alignment and the tree transforms over the .mscx tree.    *)
(*                                                                         *)
(* The tree is kept as nested records and sequences:                       *)
(*   root.part  : the <Staff> children of <Part>, in document order        *)
(*   root.score : the <Staff> children of <Score>, in document order       *)
(*   a Score staff holds its <Measure> children, a measure its <voice>     *)
(*   children, a voice its <Chord>/<Rest>/<StaffText>/... children, and a  *)
(*   Chord its <Note> children.                                            *)
(* Indices passed to operations are 0-based as in the Python code; TLA+    *)
(* sequences are 1-based, so staff i is root.score[i + 1].                 *)
(***************************************************************************)
EXTENDS Integers, Sequences, FiniteSets, TLC

\* root       the tree a transform works on
\* pre        the tree before the transform last run
\* last       the operation last run and how it ended
\* transforms the list of a MultiTransform
\* content    the tree as read from the archive
VARIABLES root, pre, last, transforms, content

vars == <<root, pre, last, transforms, content>>

(***************************************************************************)
(* Bounds of the model.                                                    *)
(***************************************************************************)
MaxStaves == 3
MaxSteps == 2
MaxNotes == 2
MaxMeasures == 2
MaxVoices == 5

(***************************************************************************)
(* Generic helpers.                                                        *)
(***************************************************************************)
Max(S) == CHOOSE x \in S : \A y \in S : y <= x

Min(S) == CHOOSE x \in S : \A y \in S : x <= y

RECURSIVE Concat(_)
Concat(ss) == IF ss = <<>> THEN <<>> ELSE Head(ss) \o Concat(Tail(ss))

Range(s) == {s[k] : k \in DOMAIN s}

Filter(s, Keep(_)) == SelectSeq(s, Keep)

(***************************************************************************)
(* Strings are sequences of characters; the flat and sharp signs, the      *)
(* superscript seven, the degree sign and the newline are one character    *)
(* each.                                                                   *)
(***************************************************************************)
fl == "flat"
sh == "sharp"
nl == "newline"

TPC_NAMES ==
  << <<"C", fl, fl>>, <<"G", fl, fl>>, <<"D", fl, fl>>, <<"A", fl, fl>>,
     <<"E", fl, fl>>, <<"B", fl, fl>>,
     <<"F", fl>>, <<"C", fl>>, <<"G", fl>>, <<"D", fl>>, <<"A", fl>>,
     <<"E", fl>>, <<"B", fl>>,
     <<"F">>, <<"C">>, <<"G">>, <<"D">>, <<"A">>, <<"E">>, <<"B">>,
     <<"F", sh>>, <<"C", sh>>, <<"G", sh>>, <<"D", sh>>, <<"A", sh>>,
     <<"E", sh>>, <<"B", sh>>,
     <<"F", sh, sh>>, <<"C", sh, sh>>, <<"G", sh, sh>>, <<"D", sh, sh>>,
     <<"A", sh, sh>>, <<"E", sh, sh>>, <<"B", sh, sh>>,
     <<"F", fl, fl>> >>

Markings == {"M", "m", "7", "d"}

CHORD_INTERVALS_BY_MARKING ==
  [mk \in Markings |->
     CASE mk = "M" -> <<4, 7>>
       [] mk = "m" -> <<3, 7>>
       [] mk = "7" -> <<4, 10>>
       [] mk = "d" -> <<3, 9>>]

CHORD_SUFFIX_BY_MARKING ==
  [mk \in Markings |->
     CASE mk = "M" -> <<>>
       [] mk = "m" -> <<"m">>
       [] mk = "7" -> <<"sup7">>
       [] mk = "d" -> <<"degree">>]

\* str.lower() on one character: the letters change, every other sign stays.
LowerChar(ch) ==
  CASE ch = "A" -> "a" [] ch = "B" -> "b" [] ch = "C" -> "c"
    [] ch = "D" -> "d" [] ch = "E" -> "e" [] ch = "F" -> "f"
    [] ch = "G" -> "g"
    [] OTHER -> ch

Lower(str) == [k \in DOMAIN str |-> LowerChar(str[k])]

\* "\n".join(names)
RECURSIVE Join(_)
Join(names) ==
  IF names = <<>> THEN <<>>
  ELSE IF Len(names) = 1 THEN names[1]
  ELSE names[1] \o <<nl>> \o Join(Tail(names))

\* TPC_NAMES[tpc] with Python's list indexing: a negative index counts from
\* the end, an index outside -len..len-1 raises IndexError.
TpcInRange(tpc) == tpc >= -Len(TPC_NAMES) /\ tpc < Len(TPC_NAMES)

TpcName(tpc) ==
  IF tpc >= 0 THEN TPC_NAMES[tpc + 1] ELSE TPC_NAMES[Len(TPC_NAMES) + tpc + 1]

(***************************************************************************)
(* Tree nodes.                                                             *)
(*   Note      [pitch, tpc, text, play]: tpc, play are the sequences of    *)
(*             the <tpc>, <play> children; text the sequence of the        *)
(*             Fingering/text strings under the note.                      *)
(*   Element   a child of a voice: [tag, Note, visible, text, offset].     *)
(***************************************************************************)
NoteNode(p, tpcs, texts) ==
  [pitch |-> p, tpc |-> tpcs, text |-> texts, play |-> <<>>]

ChordNode(notes) ==
  [tag |-> "Chord", Note |-> notes, visible |-> <<>>, text |-> <<>>,
   offset |-> <<>>]

RestNode ==
  [tag |-> "Rest", Note |-> <<>>, visible |-> <<>>, text |-> <<>>,
   offset |-> <<>>]

(***************************************************************************)
(* class Chord                                                             *)
(***************************************************************************)
\* The Fingering/text strings under the chord node, in document order.
FingeringTexts(chord_node) ==
  Concat([k \in DOMAIN chord_node.Note |-> chord_node.Note[k].text])

IsMarking(t) == t \in DOMAIN CHORD_SUFFIX_BY_MARKING

RECURSIVE LastMarking(_)
LastMarking(texts) ==
  IF texts = <<>> THEN <<>>
  ELSE IF texts[Len(texts)] \in DOMAIN CHORD_INTERVALS_BY_MARKING
       THEN <<texts[Len(texts)]>>
       ELSE LastMarking(SubSeq(texts, 1, Len(texts) - 1))

\* tpc_by_pitch after the loop of __init__ over the first k notes: a later
\* note of the same pitch overwrites, a note without <tpc> assigns nothing.
RECURSIVE TpcByPitch(_, _)
TpcByPitch(notes, k) ==
  IF k = 0 THEN [p \in {} |-> 0]
  ELSE LET before == TpcByPitch(notes, k - 1)
           n == notes[k]
       IN IF n.tpc = <<>> THEN before
          ELSE [p \in (DOMAIN before) \cup {n.pitch} |->
                  IF p = n.pitch THEN n.tpc[Len(n.tpc)] ELSE before[p]]

Chord(chord_node) ==
  LET texts == FingeringTexts(chord_node)
      mk == LastMarking(texts)
  IN [chord_intervals |->
        IF mk = <<>> THEN <<>> ELSE CHORD_INTERVALS_BY_MARKING[mk[1]],
      chord_suffix |->
        IF mk = <<>> THEN <<>> ELSE CHORD_SUFFIX_BY_MARKING[mk[1]],
      pitches |-> {chord_node.Note[k].pitch : k \in DOMAIN chord_node.Note},
      pitch_classes |->
        {chord_node.Note[k].pitch % 12 : k \in DOMAIN chord_node.Note},
      tpc_by_pitch |-> TpcByPitch(chord_node.Note, Len(chord_node.Note)),
      marking_nodes |-> Filter(texts, IsMarking)]

root_pitch(chord) == Max(chord.pitches)

\* while pitch <= 50: pitch += 12
FoldLimit == 50

RECURSIVE FoldUpFrom(_)
FoldUpFrom(pitch) ==
  IF pitch <= FoldLimit THEN FoldUpFrom(pitch + 12) ELSE pitch

\* The loop with the test of the older script: while pitch < 50.
RECURSIVE FoldUpBelow(_)
FoldUpBelow(pitch) ==
  IF pitch < FoldLimit THEN FoldUpBelow(pitch + 12) ELSE pitch

FoldUp(pitch) == FoldUpFrom(pitch)

\* The pitch computed for one interval, before the membership test.
IntervalPitch(chord, chord_interval) ==
  FoldUp((root_pitch(chord) + chord_interval) % 12)

\* The generator of extra_pitches, run over the intervals from position k.
RECURSIVE ExtraFrom(_, _)
ExtraFrom(chord, k) ==
  IF k > Len(chord.chord_intervals) THEN <<>>
  ELSE LET pitch == IntervalPitch(chord, chord.chord_intervals[k])
       IN (IF pitch \notin chord.pitches THEN <<pitch>> ELSE <<>>)
          \o ExtraFrom(chord, k + 1)

\* max() of an empty set raises ValueError as soon as one interval is tried.
extra_pitches(chord) ==
  IF chord.chord_intervals /= <<>> /\ chord.pitches = {}
  THEN [status |-> "ValueError", ret |-> <<>>]
  ELSE [status |-> "ok", ret |-> ExtraFrom(chord, 1)]

extra_note_nodes(chord) ==
  LET ep == extra_pitches(chord)
  IN [status |-> ep.status,
      ret |-> [k \in DOMAIN ep.ret |-> NoteNode(ep.ret[k], <<>>, <<>>)]]

RECURSIVE SortedFrom(_)
SortedFrom(S) ==
  IF S = {} THEN <<>> ELSE <<Max(S)>> \o SortedFrom(S \ {Max(S)})

\* The sort without reverse=True.
RECURSIVE SortedAsc(_)
SortedAsc(S) ==
  IF S = {} THEN <<>> ELSE <<Min(S)>> \o SortedAsc(S \ {Min(S)})

\* sorted(list(pitches), reverse=True)
SortedDesc(S) == SortedFrom(S)

\* The name with the lower-casing left out.
AnnotationNameUpper(chord, pitch) ==
  LET name == TpcName(chord.tpc_by_pitch[pitch])
  IN IF chord.chord_intervals /= <<>> /\ pitch = root_pitch(chord)
     THEN name \o chord.chord_suffix
     ELSE name

\* The name appended for one pitch in the loop of annotations.
AnnotationName(chord, pitch) ==
  LET name == TpcName(chord.tpc_by_pitch[pitch])
  IN IF chord.chord_intervals /= <<>> /\ pitch = root_pitch(chord)
     THEN Lower(name) \o chord.chord_suffix
     ELSE name

\* annotations with a pitch that has no TPC passed over instead of raising.
annotationsLenient(chord) ==
  LET order == SortedDesc(DOMAIN chord.tpc_by_pitch)
      names == [k \in DOMAIN order |-> AnnotationName(chord, order[k])]
  IN [status |-> "ok",
      ret |-> IF Len(names) > 0 THEN <<Join(names)>> ELSE <<>>]

annotations(chord) ==
  LET order == SortedDesc(chord.pitches)
      bad == {k \in DOMAIN order : order[k] \notin DOMAIN chord.tpc_by_pitch}
      far == {k \in DOMAIN order :
                /\ order[k] \in DOMAIN chord.tpc_by_pitch
                /\ ~TpcInRange(chord.tpc_by_pitch[order[k]])}
      names == [k \in DOMAIN order |-> AnnotationName(chord, order[k])]
  IN IF bad \cup far /= {}
     THEN [status |-> IF Min(bad \cup far) \in bad THEN "KeyError"
                      ELSE "IndexError",
           ret |-> <<>>]
     ELSE [status |-> "ok",
           ret |-> IF Len(names) > 0 THEN <<Join(names)>> ELSE <<>>]

StaffTextNode(annotation) ==
  [tag |-> "StaffText", Note |-> <<>>, visible |-> <<>>, text |-> annotation,
   offset |-> <<>>]

extra_stafftext_nodes(chord) ==
  LET an == annotations(chord)
  IN [status |-> an.status,
      ret |-> [k \in DOMAIN an.ret |-> StaffTextNode(an.ret[k])]]

(***************************************************************************)
(* class Measure                                                           *)
(***************************************************************************)
\* zip(*measure_node_by_idx_by_staff) stops at the shortest staff; zip() of
\* no staff at all yields nothing.
NumAligned(doc) ==
  IF doc.score = <<>> THEN 0
  ELSE Min({Len(doc.score[s].measures) : s \in DOMAIN doc.score})

\* The aligned groups: group k holds measure k of every staff, in staff order.
measures(doc) ==
  [k \in 1..NumAligned(doc) |->
     [s \in DOMAIN doc.score |-> doc.score[s].measures[k]]]

\* The number of <voice> elements voice() appends: range(4 - n).
VoiceSlots == 4

MissingSlots(n) == IF n < VoiceSlots THEN VoiceSlots - n ELSE 0

\* The new voices put before the existing ones.
WithVoicesInFront(measure_node) ==
  [measure_node EXCEPT
     !.voice = [x \in 1..MissingSlots(Len(@)) |-> <<>>] \o @]

\* The measure node after voice(): SubElement appends at the end.
WithVoices(measure_node) ==
  [measure_node EXCEPT
     !.voice = @ \o [x \in 1..MissingSlots(Len(@)) |-> <<>>]]

\* Measure.voice(i, j) on one aligned group (i and j 0-based): the group
\* afterwards and the position and content of the voice returned.
voice(measure, i, j) ==
  IF i >= Len(measure)
  THEN [status |-> "IndexError", measure |-> measure, ret |-> <<>>]
  ELSE LET node == WithVoices(measure[i + 1])
       IN [status |-> IF j >= Len(node.voice) THEN "IndexError" ELSE "ok",
           measure |-> [measure EXCEPT ![i + 1] = node],
           ret |-> IF j >= Len(node.voice) THEN <<>>
                   ELSE <<j, node.voice[j + 1]>>]

\* The tree with the nodes of aligned group k replaced.
WithGroup(doc, k, measure) ==
  [doc EXCEPT !.score =
     [s \in DOMAIN @ |-> [@[s] EXCEPT !.measures[k] = measure[s]]]]

(***************************************************************************)
(* Loops that an exception ends.  Each pass of the loops below works on    *)
(* its own node, so the passes are computed one by one; the loop stops at  *)
(* the first pass that raises and the later nodes stay as they were.       *)
(***************************************************************************)
Raised(steps) == {k \in DOMAIN steps : steps[k].status /= "ok"}

LoopStatus(steps) ==
  IF Raised(steps) = {} THEN "ok" ELSE steps[Min(Raised(steps))].status

\* Whether the loop reaches pass k.
Reached(steps, k) == \A x \in Raised(steps) : k <= x

(***************************************************************************)
(* GermanTransform and SymbolsTransform                                    *)
(***************************************************************************)
Unmarked(note) == [note EXCEPT !.text = Filter(@, LAMBDA t : ~IsMarking(t))]

\* The chord node after the extra notes are appended and the marking nodes
\* removed.
Grown(chord_node, notes) ==
  [chord_node EXCEPT
     !.Note = [k \in 1..(Len(@) + Len(notes)) |->
                 Unmarked((@ \o notes)[k])]]

GermanOutcome(chord_node, notes, texts) ==
  IF notes.status /= "ok"
  THEN [status |-> notes.status, out |-> <<chord_node>>]
  ELSE IF texts.status /= "ok"
  THEN [status |-> texts.status, out |-> <<Grown(chord_node, notes.ret)>>]
  ELSE [status |-> "ok",
        out |-> texts.ret \o <<Grown(chord_node, notes.ret)>>]

\* The body of GermanTransform's loop for one chord node: what stands in the
\* voice in place of the node afterwards, and whether an exception ended it.
GermanChord(chord_node) ==
  GermanOutcome(chord_node, extra_note_nodes(Chord(chord_node)),
                extra_stafftext_nodes(Chord(chord_node)))

SymbolsOutcome(chord_node, texts) ==
  IF texts.status /= "ok"
  THEN [status |-> texts.status, out |-> <<chord_node>>]
  ELSE [status |-> "ok", out |-> texts.ret \o <<chord_node>>]

\* The body of SymbolsTransform's loop for one chord node.
SymbolsChord(chord_node) ==
  SymbolsOutcome(chord_node, extra_stafftext_nodes(Chord(chord_node)))

ChordStep(mode, node) ==
  IF node.tag /= "Chord" THEN [status |-> "ok", out |-> <<node>>]
  ELSE IF mode = "German" THEN GermanChord(node)
  ELSE SymbolsChord(node)

VoiceOutcome(v, steps) ==
  [status |-> LoopStatus(steps),
   out |-> Concat([k \in DOMAIN v |->
                     IF Reached(steps, k) THEN steps[k].out ELSE <<v[k]>>])]

\* The chord nodes of one voice, in document order.
WalkVoice(mode, v) ==
  VoiceOutcome(v, [k \in DOMAIN v |-> ChordStep(mode, v[k])])

MeasureOutcome(vs, steps) ==
  [status |-> LoopStatus(steps),
   out |-> [x \in DOMAIN vs |->
              IF Reached(steps, x) THEN steps[x].out ELSE vs[x]]]

\* measure_node.xpath(".//Chord"): voice after voice.
WalkMeasure(mode, vs) ==
  MeasureOutcome(vs, [x \in DOMAIN vs |-> WalkVoice(mode, vs[x])])

StaffOutcome(doc, staff_id, steps) ==
  [status |-> LoopStatus(steps),
   root |-> [doc EXCEPT !.score[staff_id + 1].measures =
               [k \in DOMAIN @ |->
                  IF k \in DOMAIN steps /\ Reached(steps, k)
                  THEN [@[k] EXCEPT !.voice = steps[k].out]
                  ELSE @[k]]]]

\* The loop over the measures of the staff itself instead of the aligned ones.
WalkStaffOwn(mode, doc, staff_id) ==
  IF staff_id >= Len(doc.score)
  THEN [status |-> "IndexError", root |-> doc]
  ELSE StaffOutcome(doc, staff_id,
         [k \in DOMAIN doc.score[staff_id + 1].measures |->
            WalkMeasure(mode, doc.score[staff_id + 1].measures[k].voice)])

\* for measure in Measure.measures(self.root): measure.node(staff_id) raises
\* IndexError in the first pass when there is no such staff.
WalkStaff(mode, doc, staff_id) ==
  IF NumAligned(doc) = 0 THEN [status |-> "ok", root |-> doc]
  ELSE IF staff_id >= Len(doc.score)
  THEN [status |-> "IndexError", root |-> doc]
  ELSE StaffOutcome(doc, staff_id,
         [k \in 1..NumAligned(doc) |->
            WalkMeasure(mode, measures(doc)[k][staff_id + 1].voice)])

GermanTransform(doc, staff_id) == WalkStaff("German", doc, staff_id)

SymbolsTransform(doc, staff_id) == WalkStaff("Symbols", doc, staff_id)

(***************************************************************************)
(* CondensedTransform                                                      *)
(***************************************************************************)
\* The clone with the scrub of its notes left out.
DummyRestWithNotes(chord_node) ==
  [chord_node EXCEPT !.tag = "Rest", !.visible = @ \o <<"0">>]

\* deepcopy, scrub(".//Note"), tag = "Rest", SubElement "visible" = "0".
DummyRest(chord_node) ==
  [chord_node EXCEPT !.Note = <<>>, !.tag = "Rest",
                     !.visible = @ \o <<"0">>]

WithOffset(stafftext_node) ==
  [stafftext_node EXCEPT !.offset = @ \o <<[x |-> "0", y |-> "3.7"]>>]

CondenseOutcome(chord_node, texts) ==
  IF chord_node.tag /= "Chord"
  THEN [status |-> "ok", out |-> <<DummyRest(chord_node)>>]
  ELSE IF texts.status /= "ok"
  THEN [status |-> texts.status, out |-> <<DummyRest(chord_node)>>]
  ELSE [status |-> "ok",
        out |-> [k \in DOMAIN texts.ret |-> WithOffset(texts.ret[k])]
                \o <<DummyRest(chord_node)>>]

\* What one child of the source voice adds to the end of the target voice.
CondenseChild(chord_node) ==
  CondenseOutcome(chord_node, extra_stafftext_nodes(Chord(chord_node)))

IsChordOrRest(e) == e.tag \in {"Chord", "Rest"}

AddedOutcome(steps) ==
  [status |-> LoopStatus(steps),
   out |-> Concat([k \in DOMAIN steps |->
                     IF Reached(steps, k) THEN steps[k].out ELSE <<>>])]

\* The loop over src_voice_node.xpath("./Chord | ./Rest").
CondenseFrom(src) == AddedOutcome([k \in DOMAIN src |-> CondenseChild(src[k])])

Appended(tgt, added) ==
  [status |-> added.status,
   measure |-> [tgt.measure EXCEPT
                  ![1].voice[tgt.ret[1] + 1] = @ \o added.out]]

ExpandOutcome(src, tgt) ==
  IF src.status /= "ok"
  THEN [status |-> src.status, measure |-> src.measure]
  ELSE IF tgt.status /= "ok"
  THEN [status |-> tgt.status, measure |-> tgt.measure]
  ELSE Appended(tgt, CondenseFrom(Filter(src.ret[2], IsChordOrRest)))

SourceThenTarget(src) == ExpandOutcome(src, voice(src.measure, 0, 3))

\* expand_one_measure on one aligned group.
expand_one_measure(measure) == SourceThenTarget(voice(measure, 1, 0))

CondensedOutcome(doc, steps) ==
  [status |-> LoopStatus(steps),
   root |-> [doc EXCEPT !.score =
               [s \in DOMAIN @ |->
                  [@[s] EXCEPT !.measures =
                     [k \in DOMAIN @ |->
                        IF k \in DOMAIN steps /\ Reached(steps, k)
                        THEN steps[k].measure[s]
                        ELSE @[k]]]]]]

CondensedTransform(doc) ==
  CondensedOutcome(doc,
    [k \in 1..NumAligned(doc) |-> expand_one_measure(measures(doc)[k])])

(***************************************************************************)
(* Transforms of the staff lists                                           *)
(***************************************************************************)
InsertAfter(s, k, x) == SubSeq(s, 1, k) \o <<x>> \o SubSeq(s, k + 1, Len(s))

\* One half of CopyStaffTransform.modify, on the staff list of one tree.
CopyStaffIn(staves, src, tgt) ==
  IF src >= Len(staves) THEN [status |-> "IndexError", ret |-> staves]
  ELSE IF staves[src + 1].id /= src + 1
  THEN [status |-> "AssertionError", ret |-> staves]
  ELSE IF Len(staves) /= tgt
  THEN [status |-> "AssertionError", ret |-> staves]
  ELSE [status |-> "ok",
        ret |-> InsertAfter(staves, src + 1,
                            [staves[src + 1] EXCEPT !.id = tgt + 1])]

CopyStaffTransform(doc, src, tgt) ==
  LET p == CopyStaffIn(doc.part, src, tgt)
      s == CopyStaffIn(doc.score, src, tgt)
  IN IF p.status /= "ok" THEN [status |-> p.status, root |-> doc]
     ELSE [status |-> s.status,
           root |-> [doc EXCEPT !.part = p.ret, !.score = s.ret]]

BracketNode(n) == [type |-> "1", span |-> n, col |-> "0"]

\* FixBrackets with the two scrubs left out.
FixBracketsNoScrub(doc) ==
  LET n == Len(doc.part)
  IN [status |-> "ok",
      root |-> [doc EXCEPT !.part =
                  [k \in 1..n |->
                     [doc.part[k] EXCEPT
                        !.bracket = IF k = 1 THEN @ \o <<BracketNode(n)>>
                                    ELSE @,
                        !.barLineSpan = IF k < n THEN @ \o <<"1">> ELSE @]]]]

FixBrackets(doc) ==
  LET n == Len(doc.part)
  IN [status |-> "ok",
      root |-> [doc EXCEPT !.part =
                  [k \in 1..n |->
                     [doc.part[k] EXCEPT
                        !.bracket = IF k = 1 THEN <<BracketNode(n)>>
                                    ELSE <<>>,
                        !.barLineSpan = IF k < n THEN <<"1">> ELSE <<>>]]]]

\* CopyClefTransform.modify
CopyClefTransform(doc, src, tgt) ==
  IF src >= Len(doc.part) THEN [status |-> "IndexError", root |-> doc]
  ELSE IF doc.part[src + 1].id /= src + 1
  THEN [status |-> "AssertionError", root |-> doc]
  ELSE IF tgt >= Len(doc.part) THEN [status |-> "IndexError", root |-> doc]
  ELSE IF doc.part[src + 1].defaultClef = <<>>
  THEN [status |-> "IndexError", root |-> doc]
  ELSE [status |-> "ok",
        root |-> [doc EXCEPT !.part[tgt + 1].defaultClef =
                    Append(@, doc.part[src + 1].defaultClef[1])]]

\* scrub(note_node, ".//play"), then a new <play> of "0".
Muted(note) == [note EXCEPT !.play = <<"0">>]

MutedElement(e) == [e EXCEPT !.Note = [k \in DOMAIN @ |-> Muted(@[k])]]

\* MuteStaffTransform.modify
MuteStaffTransform(doc, idx) ==
  IF idx >= Len(doc.score) THEN [status |-> "IndexError", root |-> doc]
  ELSE [status |-> "ok",
        root |-> [doc EXCEPT !.score[idx + 1].measures =
                    [k \in DOMAIN @ |->
                       [@[k] EXCEPT !.voice =
                          [x \in DOMAIN @ |->
                             [e \in DOMAIN @[x] |-> MutedElement(@[x][e])]]]]]]

\* HideStaffTransform.modify
HideStaffTransform(doc, idx) ==
  IF idx >= Len(doc.part) THEN [status |-> "IndexError", root |-> doc]
  ELSE [status |-> "ok",
        root |-> [doc EXCEPT !.part[idx + 1].isStaffVisible = <<"0">>]]

\* HideInvisibleTransform.modify: the tree keeps the texts of its
\* Score/showInvisible nodes in showInvisible.
HideInvisibleTransform(doc) ==
  [status |-> "ok",
   root |-> [doc EXCEPT !.showInvisible = [k \in DOMAIN @ |-> "0"]]]

(***************************************************************************)
(* The three pipelines.                                                    *)
(***************************************************************************)
Step(name, arguments) == [name |-> name, args |-> arguments]

german ==
  << Step("CopyStaff", <<1, 2>>), Step("CopyClef", <<1, 2>>),
     Step("German", <<2>>), Step("HideStaff", <<1>>),
     Step("MuteStaff", <<1>>), Step("FixBrackets", <<>>),
     Step("HideInvisible", <<>>) >>

american ==
  << Step("CopyStaff", <<1, 2>>), Step("CopyClef", <<1, 2>>),
     Step("Symbols", <<1>>), Step("German", <<2>>),
     Step("HideStaff", <<2>>), Step("MuteStaff", <<1>>),
     Step("FixBrackets", <<>>), Step("HideInvisible", <<>>) >>

\* french with GermanTransform run on the staff the chords are written on.
frenchOnSource ==
  << Step("CopyStaff", <<1, 2>>), Step("CopyClef", <<1, 2>>),
     Step("German", <<1>>), Step("Condensed", <<>>),
     Step("HideStaff", <<1>>), Step("HideStaff", <<2>>),
     Step("MuteStaff", <<1>>), Step("HideInvisible", <<>>) >>

french ==
  << Step("CopyStaff", <<1, 2>>), Step("CopyClef", <<1, 2>>),
     Step("German", <<2>>), Step("Condensed", <<>>),
     Step("HideStaff", <<1>>), Step("HideStaff", <<2>>),
     Step("MuteStaff", <<1>>), Step("HideInvisible", <<>>) >>

(***************************************************************************)
(* The documents the model starts from.                                    *)
(***************************************************************************)
PartStaff(i, markers) ==
  [id |-> i, bracket |-> markers[1], barLineSpan |-> markers[2],
   defaultClef |-> <<>>, isStaffVisible |-> <<>>]

ScoreStaff(i, ms) == [id |-> i, measures |-> ms]

MeasureNode(vs) == [voice |-> vs]

Loaded == [op |-> "load", args |-> <<>>, status |-> "ok", ret |-> <<>>,
           n |-> 0]

\* All sequences over S of length at most n.
RECURSIVE SeqUpTo(_, _)
SeqUpTo(S, n) ==
  IF n = 0 THEN {<<>>}
  ELSE LET shorter == SeqUpTo(S, n - 1)
       IN shorter \cup {Append(q, x) : q \in shorter, x \in S}

\* Written pitches with the TPC MuseScore stores for them:
\* 51 as F double flat (-1), 52 as E, 55 as G, 60 as C.
Spelling == (51 :> -1) @@ (52 :> 18) @@ (55 :> 15) @@ (60 :> 14)

TextChoices ==
  {<<>>, <<"M">>, <<"m">>, <<"7">>, <<"d">>, <<"1">>, <<"M", "m">>}

\* The notes of a chord node: the pitches of S in ascending order, each with
\* its <tpc>, the Fingering texts t on the first note.
RECURSIVE Ascending(_)
Ascending(S) ==
  IF S = {} THEN <<>> ELSE <<Min(S)>> \o Ascending(S \ {Min(S)})

SpelledNotes(S, t) ==
  LET ps == Ascending(S)
  IN [k \in DOMAIN ps |->
        NoteNode(ps[k], <<Spelling[ps[k]]>>, IF k = 1 THEN t ELSE <<>>)]

\* Variants of a note list in which a note has no <tpc>: the first note
\* without one, or a second note of the first note's pitch without one,
\* after or before it.
TpcVariants(notes) ==
  IF notes = <<>> THEN {notes}
  ELSE LET bare == [notes[1] EXCEPT !.tpc = <<>>, !.text = <<>>]
       IN {notes,
           [notes EXCEPT ![1].tpc = <<>>],
           notes \o <<bare>>,
           <<bare>> \o notes}

ChordNodes ==
  UNION {TpcVariants(SpelledNotes(S, t)) :
           S \in {T \in SUBSET DOMAIN Spelling : Cardinality(T) <= MaxNotes},
           t \in TextChoices}

PlainPart(n) == [k \in 1..n |-> PartStaff(k, <<<<>>, <<>>>>)]

\* A two-staff document whose second staff holds one chord node.
ChordDocs ==
  {[part |-> PlainPart(2),
    score |-> <<ScoreStaff(1, <<MeasureNode(<<>>)>>),
                ScoreStaff(2, <<MeasureNode(<<<<ChordNode(notes)>>>>)>>)>>] :
     notes \in ChordNodes}

StaffTextOf(str) == StaffTextNode(<<str>>)

\* A measure with two voices: texts, rests, marked and unmarked chords.
FullMeasure ==
  MeasureNode(
    << <<StaffTextOf("p"),
         ChordNode(SpelledNotes({52, 60}, <<"7">>)),
         RestNode,
         ChordNode(SpelledNotes({55}, <<>>))>>,
       <<ChordNode(SpelledNotes({55}, <<"m">>))>> >>)

\* A measure with more voices than slots.
WideMeasure ==
  MeasureNode(
    << <<RestNode>>, <<>>, <<>>, <<RestNode>>,
       <<ChordNode(SpelledNotes({60}, <<"M">>))>> >>)

\* The first staff holds any measures, the second one measure repeated.
MeasureDocs ==
  {[part |-> PlainPart(2),
    score |-> <<ScoreStaff(1, a), ScoreStaff(2, [k \in 1..n |-> m])>>] :
     a \in SeqUpTo({FullMeasure, WideMeasure}, MaxMeasures),
     m \in {FullMeasure, WideMeasure},
     n \in 0..MaxMeasures}

\* Voice v of a measure of the voice documents: one chord that tells it apart.
TaggedVoice(v) == <<ChordNode(<<NoteNode(v, <<>>, <<>>)>>)>>

VoiceDocs ==
  {[part |-> PlainPart(2),
    score |-> <<ScoreStaff(1, <<MeasureNode([v \in 1..a |-> TaggedVoice(v)])>>),
                ScoreStaff(2, <<MeasureNode([v \in 1..b |-> <<>>])>>)>>] :
     a \in 0..MaxVoices, b \in 0..MaxVoices}

MarkerChoices ==
  { <<<<>>, <<>>>>,
    <<<<BracketNode(2)>>, <<"1">>>>,
    <<<<BracketNode(1), BracketNode(3)>>, <<"1", "1">>>> }

StaffDocs ==
  {[part |-> [k \in DOMAIN ms |-> PartStaff(k, ms[k])],
    score |-> [k \in 1..c |-> ScoreStaff(k, <<>>)]] :
     ms \in SeqUpTo(MarkerChoices, MaxStaves), c \in 0..MaxStaves}

(***************************************************************************)
(* Actions: one per operation.  An exception ends the conversion, so no    *)
(* operation follows one that raised.                                      *)
(***************************************************************************)
Running == last.status = "ok"

\* A transform's modify() on the tree.
Transformed(name, arguments, res) ==
  /\ Running
  /\ last.n < MaxSteps
  /\ root' = res.root
  /\ pre' = root
  /\ last' = [op |-> name, args |-> arguments, status |-> res.status,
              ret |-> <<>>, n |-> last.n + 1]
  /\ UNCHANGED <<transforms, content>>

\* A computation that leaves the tree alone.
Computed(name, arguments, res) ==
  /\ Running
  /\ root' = root
  /\ pre' = root
  /\ last' = [op |-> name, args |-> arguments, status |-> res.status,
              ret |-> res.ret, n |-> last.n]
  /\ UNCHANGED <<transforms, content>>

\* The chord nodes of a sequence of voices.
ChordsOfVoices(vs) ==
  UNION {{vs[x][e] : e \in {e \in DOMAIN vs[x] : vs[x][e].tag = "Chord"}} :
           x \in DOMAIN vs}

\* The chord nodes anywhere under Score.
AllChordNodes(doc) ==
  UNION {UNION {ChordsOfVoices(doc.score[s].measures[k].voice) :
                  k \in DOMAIN doc.score[s].measures} :
           s \in DOMAIN doc.score}

ExtraPitches ==
  \E chord_node \in AllChordNodes(root) :
    Computed("extra_pitches", <<chord_node>>, extra_pitches(Chord(chord_node)))

Annotations ==
  \E chord_node \in AllChordNodes(root) :
    Computed("annotations", <<chord_node>>, annotations(Chord(chord_node)))

German ==
  \E staff_id \in 0..1 :
    Transformed("German", <<staff_id>>, GermanTransform(root, staff_id))

Symbols ==
  \E staff_id \in 0..1 :
    Transformed("Symbols", <<staff_id>>, SymbolsTransform(root, staff_id))

Condensed == Transformed("Condensed", <<>>, CondensedTransform(root))

Voice ==
  \E k \in 1..NumAligned(root), i \in 0..Len(root.score) - 1, j \in 0..3 :
    /\ Running
    /\ LET res == voice(measures(root)[k], i, j)
       IN /\ root' = WithGroup(root, k, res.measure)
          /\ pre' = root
          /\ last' = [op |-> "voice", args |-> <<k, i, j>>,
                      status |-> res.status, ret |-> res.ret, n |-> last.n]
    /\ UNCHANGED <<transforms, content>>

CopyStaff ==
  \E src \in 0..MaxStaves, tgt \in 0..MaxStaves :
    /\ Len(root.part) <= MaxStaves
    /\ Len(root.score) <= MaxStaves
    /\ Transformed("CopyStaff", <<src, tgt>>,
                   CopyStaffTransform(root, src, tgt))

FixBracketsStep == Transformed("FixBrackets", <<>>, FixBrackets(root))

(***************************************************************************)
(* Specifications.                                                         *)
(***************************************************************************)
Start(docs) ==
  /\ root \in docs
  /\ pre = root
  /\ last = Loaded
  /\ transforms = <<>>
  /\ content = root

\* The chord model and the chord-driven transforms.
Init == Start(ChordDocs \cup MeasureDocs)

Next == ExtraPitches \/ Annotations \/ German \/ Symbols \/ Condensed

Spec == Init /\ [][Next]_vars

\* Measure.voice.
InitVoice == Start(VoiceDocs)

NextVoice == Voice

SpecVoice == InitVoice /\ [][NextVoice]_vars

\* The transforms of the staff lists.
InitStaff == Start(StaffDocs)

NextStaff == CopyStaff \/ FixBracketsStep

SpecStaff == InitStaff /\ [][NextStaff]_vars

(***************************************************************************)
(* A pipeline run on a well-formed document: two staves with ids 1 and 2   *)
(* in both trees, a default clef on staff index 1, as many measures on one *)
(* staff as on the other, a TPC on every note and at least one note in     *)
(* every marked note-group.                                                *)
(***************************************************************************)
WrittenChords ==
  {ChordNode(SpelledNotes(S, t)) :
     <<S, t>> \in
       {q \in (SUBSET DOMAIN Spelling) \X TextChoices :
          /\ Cardinality(q[1]) <= MaxNotes
          /\ (q[1] = {} => \A x \in DOMAIN q[2] : ~IsMarking(q[2][x]))}}

WithClef(staff, clefs) == [staff EXCEPT !.defaultClef = clefs]

\* n measures on each staff; the second staff opens with chord node c.
WellFormedDoc(c, upper, markers, clefs, n) ==
  [part |-> <<WithClef(PartStaff(1, markers), clefs),
              WithClef(PartStaff(2, markers), <<"F">>)>>,
   score |-> <<ScoreStaff(1, [k \in 1..n |-> upper]),
               ScoreStaff(2, [k \in 1..n |->
                                IF k = 1
                                THEN MeasureNode(<<<<c, RestNode>>>>)
                                ELSE FullMeasure])>>,
   showInvisible |-> <<"1">>]

WellFormedDocs ==
  {WellFormedDoc(c, upper, markers, clefs, n) :
     c \in WrittenChords, upper \in {FullMeasure, WideMeasure},
     markers \in MarkerChoices, clefs \in {<<>>, <<"G">>},
     n \in 0..MaxMeasures}

\* The member of the list MultiTransform.process runs next.
Pending == transforms[last.n + 1]

\* The loop of MultiTransform.process has a member left to run, a name one.
Ready(name) ==
  /\ Running
  /\ last.n < Len(transforms)
  /\ Pending.name = name

\* One pass of the loop of MultiTransform.process, res what the member did.
Ran(res) ==
  /\ root' = res.root
  /\ pre' = root
  /\ last' = [op |-> Pending.name, args |-> Pending.args,
              status |-> res.status, ret |-> <<>>, n |-> last.n + 1]
  /\ UNCHANGED <<transforms, content>>

RunCopyStaff ==
  /\ Ready("CopyStaff")
  /\ Ran(CopyStaffTransform(root, Pending.args[1], Pending.args[2]))

RunCopyClef ==
  /\ Ready("CopyClef")
  /\ Ran(CopyClefTransform(root, Pending.args[1], Pending.args[2]))

RunGerman ==
  /\ Ready("German")
  /\ Ran(GermanTransform(root, Pending.args[1]))

RunSymbols ==
  /\ Ready("Symbols")
  /\ Ran(SymbolsTransform(root, Pending.args[1]))

RunCondensed ==
  /\ Ready("Condensed")
  /\ Ran(CondensedTransform(root))

RunHideStaff ==
  /\ Ready("HideStaff")
  /\ Ran(HideStaffTransform(root, Pending.args[1]))

RunMuteStaff ==
  /\ Ready("MuteStaff")
  /\ Ran(MuteStaffTransform(root, Pending.args[1]))

RunFixBrackets ==
  /\ Ready("FixBrackets")
  /\ Ran(FixBrackets(root))

RunHideInvisible ==
  /\ Ready("HideInvisible")
  /\ Ran(HideInvisibleTransform(root))

InitPipeline ==
  /\ root \in WellFormedDocs
  /\ pre = root
  /\ last = Loaded
  /\ transforms \in {german, american, french}
  /\ content = root

NextPipeline ==
  \/ RunCopyStaff
  \/ RunCopyClef
  \/ RunGerman
  \/ RunSymbols
  \/ RunCondensed
  \/ RunHideStaff
  \/ RunMuteStaff
  \/ RunFixBrackets
  \/ RunHideInvisible

SpecPipeline == InitPipeline /\ [][NextPipeline]_vars

(***************************************************************************)
(* Vocabulary of the properties.                                           *)
(***************************************************************************)
\* str.split("\n"): the lines of a text.
RECURSIVE LinesFrom(_, _)
LinesFrom(str, line) ==
  IF str = <<>> THEN <<line>>
  ELSE IF Head(str) = nl THEN <<line>> \o LinesFrom(Tail(str), <<>>)
  ELSE LinesFrom(Tail(str), Append(line, Head(str)))

Lines(str) == LinesFrom(str, <<>>)

WrittenPitches(chord_node) == Range([k \in DOMAIN chord_node.Note |->
                                       chord_node.Note[k].pitch])

RecognizedTexts(chord_node) ==
  SelectSeq(FingeringTexts(chord_node), LAMBDA t : t \in Markings)

IsMarked(chord_node) == RecognizedTexts(chord_node) /= <<>>

\* The marking in force: the last recognized one.
MarkingOf(chord_node) ==
  RecognizedTexts(chord_node)[Len(RecognizedTexts(chord_node))]

Congruent(a, b) == (a - b) % 12 = 0

\* The k-th highest member of S (k = 1 is the maximum).
Ranked(S, k) == CHOOSE p \in S : Cardinality({q \in S : q > p}) = k - 1

\* The notes of the group that carry pitch p and have a <tpc>.
SpelledAt(chord_node, p) ==
  {k \in DOMAIN chord_node.Note :
     chord_node.Note[k].pitch = p /\ chord_node.Note[k].tpc /= <<>>}

(***************************************************************************)
(* C1.  For a recognized marking and a non-empty set of written pitches,   *)
(* every pitch Chord.extra_pitches emits is not a written pitch, lies in   *)
(* 51..62 and is congruent mod 12 to root_pitch + interval for an interval *)
(* of the marking, root_pitch being the highest written pitch; at most one *)
(* pitch is emitted per interval, in the order of the interval table.      *)
(***************************************************************************)
ExtraPitchesContract ==
  (last.op = "extra_pitches" /\ IsMarked(last.args[1])
     /\ WrittenPitches(last.args[1]) /= {})
  => LET written == WrittenPitches(last.args[1])
         top == Max(written)
         ivs == CHORD_INTERVALS_BY_MARKING[MarkingOf(last.args[1])]
         out == last.ret
     IN /\ last.status = "ok"
        /\ Len(out) <= Len(ivs)
        /\ \A k \in DOMAIN out :
             /\ out[k] \notin written
             /\ 50 < out[k] /\ out[k] <= 62
             /\ \E x \in DOMAIN ivs : Congruent(out[k], top + ivs[x])
        /\ \A a, b \in DOMAIN out :
             a < b => \E x, y \in DOMAIN ivs :
                        /\ x < y
                        /\ Congruent(out[a], top + ivs[x])
                        /\ Congruent(out[b], top + ivs[y])

\* A marked group whose chord tone folds to the top of the range, 62.
ExtraPitchesWitness ==
  /\ last.op = "extra_pitches"
  /\ IsMarked(last.args[1])
  /\ last.status = "ok"
  /\ 62 \in Range(last.ret)
  /\ Len(last.ret) = 2

(***************************************************************************)
(* C2.  GermanTransform on a note-group marked "M" whose only written note *)
(* is pitch 60 spelled C.                                                  *)
(***************************************************************************)
MajorOnC == ChordNode(<<NoteNode(60, <<14>>, <<"M">>)>>)

GermanOnMajorC ==
  /\ last.op = "German"
  /\ last.args = <<1>>
  /\ Len(pre.score) = 2
  /\ pre.score[2].measures = <<MeasureNode(<<<<MajorOnC>>>>)>>

\* The voice that held the group, afterwards.
VoiceAfter == root.score[2].measures[1].voice[1]

TwoNotesOneAnnotation ==
  /\ last.status = "ok"
  /\ Len(VoiceAfter) = 2
  /\ VoiceAfter[1].tag = "StaffText"
  /\ VoiceAfter[2].tag = "Chord"
  /\ [k \in DOMAIN VoiceAfter[2].Note |-> VoiceAfter[2].Note[k].pitch]
       = <<60, 52, 55>>

\* C2 as stated: exactly 2 extra notes (52 and 55) are appended, exactly one
\* annotation is inserted before the group, and that annotation has 3 lines,
\* the top one "c".
GermanMajorThreeLines ==
  GermanOnMajorC
  => /\ TwoNotesOneAnnotation
     /\ Len(Lines(VoiceAfter[1].text)) = 3
     /\ Lines(VoiceAfter[1].text)[1] = <<"c">>

\* C2 as amended: exactly 2 extra notes (52 and 55) are appended, exactly one
\* annotation is inserted before the group, and that annotation has 1 line,
\* "c": the annotation lists the written pitches only.
GermanMajorOneLine ==
  GermanOnMajorC
  => /\ TwoNotesOneAnnotation
     /\ Lines(VoiceAfter[1].text) = << <<"c">> >>

GermanMajorWitness == GermanOnMajorC /\ last.status = "ok"

(***************************************************************************)
(* C3.  Chord.annotations returns nothing for a group without pitches;     *)
(* otherwise, every written pitch having a TPC, exactly one string with    *)
(* one line per distinct written pitch, highest first, each the tonal name *)
(* of its pitch, the line of the highest pitch lower-cased and followed by *)
(* the marking's suffix exactly when a marking was recognized.             *)
(***************************************************************************)
AllSpelled(chord_node) ==
  \A p \in WrittenPitches(chord_node) : SpelledAt(chord_node, p) /= {}

ExpectedLine(chord_node, p, name) ==
  IF IsMarked(chord_node) /\ p = Max(WrittenPitches(chord_node))
  THEN Lower(name) \o CHORD_SUFFIX_BY_MARKING[MarkingOf(chord_node)]
  ELSE name

\* C3: the strings Chord.annotations returns for a group whose written
\* pitches all have a TPC.
AnnotationsContract ==
  (last.op = "annotations" /\ AllSpelled(last.args[1]))
  => LET node == last.args[1]
         written == WrittenPitches(node)
     IN /\ last.status = "ok"
        /\ written = {} => last.ret = <<>>
        /\ written /= {} =>
             /\ Len(last.ret) = 1
             /\ Len(Lines(last.ret[1])) = Cardinality(written)
             /\ \A k \in 1..Cardinality(written) :
                  \E n \in SpelledAt(node, Ranked(written, k)) :
                    Lines(last.ret[1])[k] =
                      ExpectedLine(node, Ranked(written, k),
                                   TpcName(node.Note[n].tpc[Len(node.Note[n].tpc)]))

\* A marked group of two pitches: a lower-cased line above a plain one.
AnnotationsWitness ==
  /\ last.op = "annotations"
  /\ last.status = "ok"
  /\ IsMarked(last.args[1])
  /\ Cardinality(WrittenPitches(last.args[1])) = 2
  /\ Len(Lines(last.ret[1])) = 2

(***************************************************************************)
(* C4.  CopyStaff(src, tgt) on a document whose staff count under Part or  *)
(* under Score is not tgt fails, and after the failed call both trees hold *)
(* as many staves as before.                                               *)
(***************************************************************************)
CopyStaffFailsUntouched ==
  (last.op = "CopyStaff"
     /\ (Len(pre.part) /= last.args[2] \/ Len(pre.score) /= last.args[2]))
  => /\ last.status /= "ok"
     /\ Len(root.part) = Len(pre.part)
     /\ Len(root.score) = Len(pre.score)

(***************************************************************************)
(* C5.  On a document whose staves have id = position + 1 in both trees,   *)
(* a successful CopyStaff(src, tgt) leaves both trees with tgt + 1 staves  *)
(* whose ids are still id = position + 1 and equal between the trees.      *)
(***************************************************************************)
Positional(staves) == \A k \in DOMAIN staves : staves[k].id = k

\* C5: a successful CopyStaff keeps id = position + 1 in both trees.
CopyStaffKeepsIds ==
  (last.op = "CopyStaff" /\ last.status = "ok"
     /\ Positional(pre.part) /\ Positional(pre.score))
  => /\ Len(root.part) = last.args[2] + 1
     /\ Len(root.score) = last.args[2] + 1
     /\ Positional(root.part)
     /\ Positional(root.score)
     /\ \A k \in DOMAIN root.part : root.part[k].id = root.score[k].id

(***************************************************************************)
(* C6.  CondensedTransform, for every aligned measure: with N chord or     *)
(* rest children in voice 0 of staff index 1, voice 3 of staff index 0     *)
(* gains exactly N rests, each invisible and without notes, in the order   *)
(* of their sources; whatever else it gains is an annotation standing      *)
(* immediately before the rest cloned from the note-group it was computed  *)
(* from; the children of the source voice stay as they were.               *)
(***************************************************************************)
VoiceAt(doc, s, k, x) ==
  IF x \in DOMAIN doc.score[s].measures[k].voice
  THEN doc.score[s].measures[k].voice[x]
  ELSE <<>>

\* What the target voice of aligned measure k gained.
Gained(k) ==
  SubSeq(VoiceAt(root, 1, k, 4), Len(VoiceAt(pre, 1, k, 4)) + 1,
         Len(VoiceAt(root, 1, k, 4)))

IsRest(e) == e.tag = "Rest"

\* The number of rests among the first x elements of s.
RestsUpTo(s, x) == Len(SelectSeq(SubSeq(s, 1, x), IsRest))

CondenseMeasureContract(k) ==
  LET src == VoiceAt(pre, 2, k, 1)
      sources == SelectSeq(src, IsChordOrRest)
      gained == Gained(k)
      rests == SelectSeq(gained, IsRest)
  IN /\ SubSeq(VoiceAt(root, 1, k, 4), 1, Len(VoiceAt(pre, 1, k, 4)))
          = VoiceAt(pre, 1, k, 4)
     /\ Len(rests) = Len(sources)
     /\ \A x \in DOMAIN rests :
          /\ rests[x].Note = <<>>
          /\ rests[x].visible /= <<>>
          /\ rests[x].visible[Len(rests[x].visible)] = "0"
          /\ [rests[x] EXCEPT !.tag = sources[x].tag,
                              !.Note = sources[x].Note,
                              !.visible = sources[x].visible] = sources[x]
     /\ \A x \in DOMAIN gained :
          ~IsRest(gained[x]) =>
            /\ gained[x].tag = "StaffText"
            /\ x < Len(gained)
            /\ IsRest(gained[x + 1])
            /\ LET source == sources[RestsUpTo(gained, x + 1)]
               IN /\ source.tag = "Chord"
                  /\ WrittenPitches(source) /= {}
                  /\ Len(Lines(gained[x].text))
                       = Cardinality(WrittenPitches(source))
                  /\ \E n \in SpelledAt(source, Max(WrittenPitches(source))) :
                       Lines(gained[x].text)[1] =
                         ExpectedLine(source, Max(WrittenPitches(source)),
                           TpcName(source.Note[n].tpc[Len(source.Note[n].tpc)]))
     /\ VoiceAt(root, 2, k, 1) = src

\* C6: what CondensedTransform adds to voice 3 of staff index 0, measure by
\* measure.
CondenseContract ==
  (last.op = "Condensed" /\ last.status = "ok")
  => \A k \in 1..NumAligned(pre) : CondenseMeasureContract(k)

\* A measure whose source voice holds a text, two chords and a rest.
CondenseWitness ==
  /\ last.op = "Condensed"
  /\ last.status = "ok"
  /\ \E k \in 1..NumAligned(pre) :
       /\ Len(VoiceAt(pre, 2, k, 1)) = 4
       /\ Len(SelectSeq(VoiceAt(pre, 2, k, 1), IsChordOrRest)) = 3
       /\ Len(Gained(k)) = 5

(***************************************************************************)
(* C7.  After FixBrackets on n >= 1 staves, whatever markers they carried: *)
(* one bracket in all, on staff 0 and spanning n staves, and n - 1         *)
(* barline spans in all, one on each staff but the last.                   *)
(***************************************************************************)
RECURSIVE Sum(_)
Sum(s) == IF s = <<>> THEN 0 ELSE Head(s) + Sum(Tail(s))

\* C7: the brackets and barline spans FixBrackets leaves.
FixBracketsContract ==
  (last.op = "FixBrackets" /\ Len(pre.part) >= 1)
  => LET n == Len(pre.part)
     IN /\ last.status = "ok"
        /\ Len(root.part) = n
        /\ Sum([k \in 1..n |-> Len(root.part[k].bracket)]) = 1
        /\ Len(root.part[1].bracket) = 1
        /\ root.part[1].bracket[1].span = n
        /\ Sum([k \in 1..n |-> Len(root.part[k].barLineSpan)]) = n - 1
        /\ \A k \in 1..n :
             Len(root.part[k].barLineSpan) = IF k < n THEN 1 ELSE 0

\* Three staves that carried brackets and spans on the last staff too.
FixBracketsWitness ==
  /\ last.op = "FixBrackets"
  /\ Len(pre.part) = 3
  /\ Len(pre.part[3].bracket) = 2
  /\ Len(pre.part[3].barLineSpan) = 2
  /\ Len(pre.part[1].bracket) = 0

(***************************************************************************)
(* C8.  Measure.voice(i, j), j in 0..3, on a measure with n voice slots    *)
(* returns slot j and leaves the measure with max(n, 4) slots: the missing *)
(* ones appended empty after the existing ones, those unchanged and in     *)
(* order, none removed; a repeated call adds no slot.                      *)
(***************************************************************************)
VoiceContract ==
  (last.op = "voice")
  => LET k == last.args[1]
         s == last.args[2] + 1
         j == last.args[3]
         before == pre.score[s].measures[k].voice
         after == root.score[s].measures[k].voice
     IN /\ last.status = "ok"
        /\ Len(after) = IF Len(before) > 4 THEN Len(before) ELSE 4
        /\ SubSeq(after, 1, Len(before)) = before
        /\ \A x \in Len(before) + 1..Len(after) : after[x] = <<>>
        /\ last.ret = <<j, after[j + 1]>>
        /\ \A t \in DOMAIN root.score :
             t /= s => root.score[t] = pre.score[t]
        /\ \A j2 \in 0..3 :
             WithGroup(root, k,
                       voice(measures(root)[k], last.args[2], j2).measure)
               = root

\* Slot 3 asked of a measure that held two slots.
VoiceWitness ==
  /\ last.op = "voice"
  /\ last.args[3] = 3
  /\ Len(pre.score[last.args[2] + 1].measures[last.args[1]].voice) = 2
  /\ pre.score[last.args[2] + 1].measures[last.args[1]].voice[2] /= <<>>

(***************************************************************************)
(* C9.  With staves of differing measure counts Measure.measures yields    *)
(* min(measure counts) groups, group k holding measure k of every staff in *)
(* staff order, and raises nothing; GermanTransform, SymbolsTransform and  *)
(* CondensedTransform leave every measure from that minimum on unmodified  *)
(* on every staff.                                                         *)
(***************************************************************************)
Shortest(doc) ==
  Min({Len(doc.score[s].measures) : s \in DOMAIN doc.score})

\* C9: only the aligned measures are visited; the later ones stay as they
\* were on every staff.
CommonPrefixOnly ==
  (last.op \in {"German", "Symbols", "Condensed"})
  => /\ Len(measures(pre)) = Shortest(pre)
     /\ \A k \in DOMAIN measures(pre) :
          /\ Len(measures(pre)[k]) = Len(pre.score)
          /\ \A s \in DOMAIN pre.score :
               measures(pre)[k][s] = pre.score[s].measures[k]
     /\ Len(root.score) = Len(pre.score)
     /\ \A s \in DOMAIN pre.score :
          /\ Len(root.score[s].measures) = Len(pre.score[s].measures)
          /\ \A k \in DOMAIN pre.score[s].measures :
               k > Shortest(pre) =>
                 root.score[s].measures[k] = pre.score[s].measures[k]
     /\ Shortest(pre) = 0 => (last.status = "ok" /\ root = pre)

\* GermanTransform on the longer staff, whose measure past the common prefix
\* holds a marked chord, with one aligned measure processed.
CommonPrefixWitness ==
  /\ last.op = "German"
  /\ last.status = "ok"
  /\ last.args = <<1>>
  /\ Len(pre.score[1].measures) = 1
  /\ Len(pre.score[2].measures) = 2
  /\ pre.score[2].measures[2] = FullMeasure
  /\ root.score[2].measures[1] /= pre.score[2].measures[1]

(***************************************************************************)
(* C10.  Annotating a note-group never defaults a TPC.                     *)
(***************************************************************************)
\* The chord nodes a transform computes a Chord over.
Processed ==
  IF last.op \in {"German", "Symbols"}
  THEN UNION {ChordsOfVoices(pre.score[last.args[1] + 1].measures[k].voice) :
                k \in 1..NumAligned(pre)}
  ELSE IF last.op = "Condensed"
  THEN UNION {ChordsOfVoices(<<VoiceAt(pre, 2, k, 1)>>) :
                k \in 1..NumAligned(pre)}
  ELSE IF last.op = "annotations" THEN {last.args[1]}
  ELSE {}

HasBareNote(chord_node) ==
  \E k \in DOMAIN chord_node.Note : chord_node.Note[k].tpc = <<>>

HasBarePitch(chord_node) ==
  \E p \in WrittenPitches(chord_node) : SpelledAt(chord_node, p) = {}

\* C10 as stated: computing the annotation of a note-group that contains a
\* note with a pitch but no TPC raises, so GermanTransform, SymbolsTransform
\* and CondensedTransform applied to such a note-group abort.
BareNoteAborts ==
  (\E c \in Processed : HasBareNote(c)) => last.status /= "ok"

\* C10 as amended: computing the annotation of a note-group raises when the
\* group holds a pitch that no note of the group carries together with a
\* TPC, so the three transforms applied to such a group abort, a group with
\* the notes an earlier GermanTransform added included.  (A note without TPC
\* whose pitch another note of the group spells raises nothing: it is
\* annotated with that note's name.)
BarePitchAborts ==
  (\E c \in Processed : HasBarePitch(c)) => last.status /= "ok"

\* CondensedTransform stopped on a group GermanTransform had grown.
BarePitchWitness ==
  /\ last.op = "Condensed"
  /\ last.n = 2
  /\ last.status = "KeyError"
  /\ \E c \in Processed :
       /\ ~IsMarked(c)
       /\ Len(c.Note) = 3
       /\ c.Note[1].tpc /= <<>>
       /\ c.Note[2].tpc = <<>>
       /\ c.Note[3].tpc = <<>>

(***************************************************************************)
(* The pipelines on well-formed documents.                                 *)
(***************************************************************************)
\* The whole list has run.
Completed == Running /\ last.n = Len(transforms)

\* The member to run next reads Staff[2] of a tree.
IndexesThird ==
  /\ Running
  /\ last.n < Len(transforms)
  /\ \/ Pending.name = "CopyClef" /\ Pending.args[2] = 2
     \/ Pending.name \in {"German", "HideStaff"} /\ Pending.args[1] = 2

HasThird == Len(root.part) >= 3 /\ Len(root.score) >= 3

\* The chord nodes of staff index s.
ChordsOn(doc, s) ==
  UNION {ChordsOfVoices(doc.score[s + 1].measures[k].voice) :
           k \in DOMAIN doc.score[s + 1].measures}

\* What is written in a voice: its chords and rests, <play> left aside.
Unmuted(e) ==
  [e EXCEPT !.Note = [i \in DOMAIN @ |-> [@[i] EXCEPT !.play = <<>>]]]

WrittenIn(v) ==
  LET kept == SelectSeq(v, IsChordOrRest)
  IN [e \in DOMAIN kept |-> Unmuted(kept[e])]

\* Staff index 1 holds, voice by voice, the chords and rests it was read
\* with: every marking is still there and no note was added.
SourceKept ==
  /\ Len(root.score[2].measures) = Len(content.score[2].measures)
  /\ \A k \in DOMAIN content.score[2].measures :
       \A x \in DOMAIN content.score[2].measures[k].voice :
         WrittenIn(VoiceAt(root, 2, k, x)) =
           WrittenIn(VoiceAt(content, 2, k, x))

\* C11: each of the three pipelines (german, american, french), run in its
\* listed order on a well-formed two-staff document, finds the precondition
\* of every step satisfied and runs to completion with no step failing:
\* staff index 2 exists before any step that indexes it, no Chord is built
\* over a note-group holding a note without TPC, and at the end the document
\* has three staves, staff index 2 has no recognized chord marking left and
\* staff index 1 has all of its markings and no synthesized note.
PipelineCompletes ==
  /\ Running
  /\ IndexesThird => HasThird
  /\ \A c \in Processed : ~HasBareNote(c)
  /\ Completed =>
       /\ Len(root.part) = 3
       /\ Len(root.score) = 3
       /\ \A c \in ChordsOn(root, 2) : ~IsMarked(c)
       /\ SourceKept

\* The french pipeline has run to its end on a document whose second staff
\* held a marked note-group: the copy has it expanded, the source has not.
PipelineWitness ==
  /\ Completed
  /\ transforms = french
  /\ \E c \in ChordsOn(content, 1) : IsMarked(c)
  /\ \E c \in ChordsOn(root, 2) : HasBareNote(c)
  /\ \E c \in ChordsOn(root, 1) : IsMarked(c)

====
